---- MODULE Spec2Model ----
(***************************************************************************)
(* Voice session store and function-call dispatcher of the backend        *)
(* (backend/app/services/voice_service.py, class VoiceService).            *)
(*                                                                         *)
(* One step of the model is one stretch of a coroutine that runs without   *)
(* suspension on the asyncio event loop: a whole service method, except    *)
(* that handle_function_call is cut at the one place where it really       *)
(* suspends (the handler awaiting an HTTP call of integrations_service).   *)
(* What a method hands back to its caller is an operator of the state it   *)
(* was called in (CreateReturn, GetContextReturn, EndReturn, CallReturn,   *)
(* ResumeReturn).                                                          *)
(* Time is counted in hours, the unit of the expiry sweep.                 *)
(*                                                                         *)
(* The specifications share the variables:                                   *)
(*   Spec      the session store, the dispatcher and the sweep, with       *)
(*             session ids drawn distinct;                                 *)
(*   DeclSpec  the tool declarations of one session, for every profile;    *)
(*   ClockSpec create_session with its readings of the clock in seconds    *)
(*             and the draw of its random suffix;                          *)
(*   ChatSpec  one generate-response request (backend/app/services/        *)
(*             ai_service.py, class AIService) from arrival to response;   *)
(*   ApiSpec   the endpoints of api/v1/endpoints/voice.py and ai.py;       *)
(*   HistorySpec  the conversation of a generate-response request, for     *)
(*             chat histories longer than its window;                      *)
(*   HealthSpec   the health endpoints of api/v1/endpoints/health.py;      *)
(*   LiveSpec  the session store with a sweep that keeps being invoked.    *)
(***************************************************************************)
EXTENDS Integers, Sequences, FiniteSets, TLC

VARIABLES
    active_sessions,   \* VoiceService.active_sessions: session id -> session dict
    session_contexts,  \* VoiceService.session_contexts: session id -> list of records
    now,               \* the wall clock (datetime.utcnow()), in hours
    pending,           \* dispatches suspended in their handler's external call
    created,           \* number of session ids generated so far
    dispatched,        \* number of handle_function_call calls so far
    invoked,           \* number of handler invocations so far
    returned,          \* per stored session: how many dispatches that reached a
                       \* handler have returned to their caller
    ended_ids,         \* ids for which end_session has returned success
    clock,             \* the wall clock (time.time()), in whole seconds
    generated,         \* the session ids generated so far, in order (id model)
    chat_pc,           \* where the one generate-response request stands
    conversation_contents, \* its conversation_contents list
    function_calls,    \* its function_calls list
    function_responses,\* its function_responses list
    api_requests,      \* the contents of the completion requests it has sent
    api_responses,     \* the answers to them that it has received
    executed,          \* the tool operations it has run, in order
    chat_result,       \* the HTTP response of the request, once it has ended
    health_log         \* the responses of the health endpoints, in order

\* the frame of the generate-response request
chatvars == <<chat_pc, conversation_contents, function_calls,
              function_responses, api_requests, api_responses, executed,
              chat_result>>

\* what the session store and the dispatcher never touch
aside == <<clock, generated, chatvars, health_log>>

\* the session store and the dispatcher
voicevars == <<active_sessions, session_contexts, now, pending, created,
               dispatched, invoked, returned, ended_ids>>

vars == <<active_sessions, session_contexts, now, pending, created,
          dispatched, invoked, returned, ended_ids, clock, generated,
          chat_pc, conversation_contents, function_calls, function_responses,
          api_requests, api_responses, executed, chat_result, health_log>>

----------------------------------------------------------------------------
(* Bounds of the model *)

MaxSessions == 2
MaxCalls == 2
MaxClock == 3
MaxIntegrations == 2

(* Program constants *)

\* timedelta(hours=2): the maximum age of a session
MaxSessionAgeHours == 2

\* "expires_in": 3600, one hour
ExpiresInHours == 1

----------------------------------------------------------------------------
(* Small helpers over functions with a finite domain (Python dicts) *)

\* d[k] = v, adding k when absent
DictPut(d, k, v) == [x \in DOMAIN d \cup {k} |-> IF x = k THEN v ELSE d[x]]

\* d after `del d[k]` for every k in ids
Without(d, ids) == [x \in DOMAIN d \ ids |-> d[x]]

----------------------------------------------------------------------------
(* Inputs *)

SessionIds == 1..MaxSessions

\* the development endpoints create every session for this principal
Users == {"dev_user"}

\* integrationId values the declarations look at, and one they ignore
IntegrationIds ==
    {"api-request-tool", "domain-checker-tool", "webhook-trigger",
     "google-sheets", "notion-oauth-source", "notion-oauth-action",
     "other-integration"}

\* one element of contact["integrations"]: its integrationId and the
\* truthiness of its config.enabled
IntegrationEntries == [integrationId : IntegrationIds, enabled : BOOLEAN]

\* contact["integrations"] lists of at most n elements
RECURSIVE IntegrationLists(_)
IntegrationLists(n) ==
    IF n = 0 THEN {<<>>}
    ELSE IntegrationLists(n - 1) \cup
         {Append(l, e) : l \in {m \in IntegrationLists(n - 1) : Len(m) = n - 1},
                         e \in IntegrationEntries}

\* the profiles the sessions of the session model are created with: no
\* integration, and the API request tool enabled
SessionProfiles ==
    {<<>>, <<[integrationId |-> "api-request-tool", enabled |-> TRUE]>>}

----------------------------------------------------------------------------
(* Tool declarations: VoiceService._get_function_declarations *)

\* a variant of AnyEnabled that forgets the enabled flag
AnyListed(integrations, ids) ==
    \E i \in 1..Len(integrations) : integrations[i].integrationId \in ids

\* any(i.get("integrationId") == id and i.get("config", {}).get("enabled")
\*     for i in integrations)
AnyEnabled(integrations, ids) ==
    \E i \in 1..Len(integrations) :
        integrations[i].integrationId \in ids /\ integrations[i].enabled

\* the declaration appended under a condition, or nothing
DeclIf(cond, name) == IF cond THEN <<name>> ELSE <<>>

\* the names of the declarations, in the order they are appended
GetFunctionDeclarations(integrations) ==
    <<"generate_document">>
    \o DeclIf(AnyEnabled(integrations, {"api-request-tool"}), "make_api_request")
    \o DeclIf(AnyEnabled(integrations, {"domain-checker-tool"}),
              "check_domain_availability")
    \o DeclIf(AnyEnabled(integrations, {"webhook-trigger"}), "trigger_webhook")
    \o DeclIf(AnyEnabled(integrations, {"google-sheets"}), "manage_google_sheets")
    \o DeclIf(AnyEnabled(integrations,
                         {"notion-oauth-source", "notion-oauth-action"}),
              "manage_notion")
    \o <<"search_web", "scrape_website">>

----------------------------------------------------------------------------
(* Function handlers: VoiceService._register_function_handlers and _handle_* *)

FunctionHandlers ==
    {"generate_document", "make_api_request", "check_domain_availability",
     "trigger_webhook", "manage_google_sheets", "manage_notion",
     "search_web", "scrape_website"}

\* names a caller may send: the registered ones and one that is not
FunctionNames == FunctionHandlers \cup {"unknown_tool"}

\* the names the callers of the session model send: a handler that returns a
\* plain result, one that returns a failure result, one that awaits an
\* external call, and a name that is not registered
DispatchedNames ==
    {"generate_document", "manage_google_sheets", "search_web", "unknown_tool"}

\* the handlers that await an HTTP call (aiohttp) and so really suspend
AwaitingTools == {"make_api_request", "search_web", "scrape_website"}

\* what a call of integrations_service hands back: every execute_* and
\* check_* method catches its own errors and returns success False
ExternalOutcomes == {"ok", "fail"}

ArgKeys == {"content", "url", "domain", "action", "operation", "query"}
ArgValues == {"", "v"}

\* args.get(key) of a missing key, except content, whose default is ""
NoneValue == "None"

\* function_args as sent by the caller: a JSON object with at most one key,
\* or a JSON value that is no object
ArgInputs ==
    {[isdict |-> FALSE, items |-> <<>>], [isdict |-> TRUE, items |-> <<>>]}
    \cup {[isdict |-> TRUE, items |-> (k :> v)] : k \in ArgKeys, v \in ArgValues}

\* the argument each handler insists on; none for a name without handler
RequiredKey(fn) ==
    CASE fn = "generate_document" -> "content"
      [] fn = "make_api_request" -> "url"
      [] fn = "check_domain_availability" -> "domain"
      [] fn = "trigger_webhook" -> "action"
      [] fn = "manage_google_sheets" -> "operation"
      [] fn = "manage_notion" -> "operation"
      [] fn = "search_web" -> "query"
      [] fn = "scrape_website" -> "url"
      [] OTHER -> "none"

\* the function_args tried with a tool name: those that carry no key the
\* tool's handler ignores
ArgInputsFor(fn) ==
    {a \in ArgInputs : DOMAIN a.items \subseteq {RequiredKey(fn)}}

\* args.get(key, default)
ArgGet(args, key, default) ==
    IF key \in DOMAIN args.items THEN args.items[key] ELSE default

\* Python truthiness of an argument value
Truthy(v) == v \notin {"", NoneValue}

\* the exception a handler raises before it does anything else, or "none":
\* args.get on a non-dict, then `if not <required>: raise ValueError(...)`;
\* each handler's `except Exception: raise` passes it on unchanged
HandlerRaises(fn, args) ==
    IF ~args.isdict THEN "AttributeError"
    ELSE IF ~Truthy(ArgGet(args, RequiredKey(fn),
                           IF fn = "generate_document" THEN "" ELSE NoneValue))
         THEN "ValueError_required_argument"
         ELSE "none"

\* the dict a handler returns when it does not raise; ext is the outcome of
\* its integrations_service call, for the handlers that make one
HandlerReturn(fn, ext) ==
    CASE fn = "generate_document" -> [success |-> "absent", body |-> "document"]
      [] fn = "trigger_webhook" -> [success |-> "true", body |-> "webhook_mock"]
      [] fn \in {"manage_google_sheets", "manage_notion"} ->
            [success |-> "false", body |-> "integration_disabled"]
      [] OTHER ->
            IF ext = "ok" THEN [success |-> "true", body |-> "data"]
            ELSE [success |-> "false", body |-> "error"]

\* the outcomes the environment can produce for a handler
OutcomesOf(fn) ==
    IF fn \in AwaitingTools \cup {"check_domain_availability"}
    THEN ExternalOutcomes ELSE {"ok"}

----------------------------------------------------------------------------
(* Session lifecycle: create_session, get_session_context, end_session *)

Init ==
    /\ active_sessions = <<>>
    /\ session_contexts = <<>>
    /\ now = 0
    /\ pending = {}
    /\ created = 0
    /\ dispatched = 0
    /\ invoked = 0
    /\ returned = <<>>
    /\ ended_ids = {}
    /\ clock = 0
    /\ generated = <<>>
    /\ chat_pc = "idle"
    /\ conversation_contents = <<>>
    /\ function_calls = <<>>
    /\ function_responses = <<>>
    /\ api_requests = <<>>
    /\ api_responses = <<>>
    /\ executed = <<>>
    /\ chat_result = [status |-> 0, response |-> <<>>, error |-> "none"]
    /\ health_log = <<>>

\* session_id = f"voice_session_{int(time.time())}_{uuid.uuid4().hex[:8]}":
\* the time component and the random suffix make a new id of every call
NewSessionId == created + 1

\* the "ended_at" of a session that has none yet: no instant
NotEnded == -1

\* the session_context dict that create_session builds
NewSession(sid, user_id, contact) ==
    [session_id |-> sid,
     user_id |-> user_id,
     contact |-> contact,
     created_at |-> now,
     function_declarations |-> GetFunctionDeclarations(contact.integrations),
     status |-> "initialized",
     ended_at |-> NotEnded]

\* what create_session returns
CreateReturn(user_id, contact) ==
    [raised |-> FALSE,
     session_id |-> NewSessionId,
     function_declarations |->
         NewSession(NewSessionId, user_id, contact).function_declarations,
     expires_in |-> ExpiresInHours]

CreateSession(user_id, contact) ==
    /\ created < MaxSessions
    /\ LET sid == NewSessionId IN
          /\ active_sessions' =
                 DictPut(active_sessions, sid, NewSession(sid, user_id, contact))
          /\ session_contexts' = DictPut(session_contexts, sid, <<>>)
          /\ returned' = DictPut(returned, sid, 0)
          /\ created' = created + 1
    /\ UNCHANGED <<now, pending, dispatched, invoked, ended_ids>>
    /\ UNCHANGED aside

\* self.session_contexts.get(session_id, [])
ContextOf(sid) ==
    IF sid \in DOMAIN session_contexts THEN session_contexts[sid] ELSE <<>>

\* what get_session_context returns, or the ValueError it raises
GetContextReturn(sid) ==
    IF sid \notin DOMAIN active_sessions
    THEN [raised |-> TRUE, error |-> "session_not_found"]
    ELSE [raised |-> FALSE, session |-> active_sessions[sid],
          context |-> ContextOf(sid)]

\* get_session_context reads and changes nothing
GetSessionContext(sid) ==
    /\ GetContextReturn(sid).raised \in BOOLEAN
    /\ UNCHANGED vars

\* _calculate_session_duration
SessionDuration(session) == now - session.created_at

\* a variant of EndedSession that also resets the declarations
EndedSessionWithoutDeclarations(session) ==
    [session EXCEPT !.status = "ended", !.ended_at = now,
                    !.function_declarations = <<>>]

\* session["status"] = "ended"; session["ended_at"] = utcnow
EndedSession(session) ==
    [session EXCEPT !.status = "ended", !.ended_at = now]

\* a variant of SessionsAfterEnd that removes the entry
SessionsPurgedOnEnd(sid) == Without(active_sessions, {sid})

\* a variant of SessionsAfterEnd that marks every stored session as ended
SessionsAllEnded(sid) ==
    [x \in DOMAIN active_sessions |-> EndedSession(active_sessions[x])]

\* the session map once end_session(sid) has run on a stored session: the
\* entry is updated in place and kept
SessionsAfterEnd(sid) ==
    [active_sessions EXCEPT ![sid] = EndedSession(active_sessions[sid])]

\* a variant of EndReturn that reports an already ended session as not found
EndReturnOnce(sid) ==
    IF sid \in DOMAIN active_sessions /\ active_sessions[sid].status # "ended"
    THEN [raised |-> FALSE, success |-> TRUE, session_id |-> sid,
          duration |-> SessionDuration(active_sessions[sid])]
    ELSE [raised |-> FALSE, success |-> FALSE, error |-> "Session not found"]

\* what end_session(sid) returns; it raises nothing
EndReturn(sid) ==
    IF sid \in DOMAIN active_sessions
    THEN [raised |-> FALSE, success |-> TRUE, session_id |-> sid,
          duration |-> SessionDuration(active_sessions[sid])]
    ELSE [raised |-> FALSE, success |-> FALSE, error |-> "Session not found"]

EndSession(sid) ==
    /\ active_sessions' =
          IF sid \in DOMAIN active_sessions THEN SessionsAfterEnd(sid)
          ELSE active_sessions
    /\ ended_ids' =
          IF sid \in DOMAIN active_sessions THEN ended_ids \cup {sid}
          ELSE ended_ids
    /\ UNCHANGED <<session_contexts, now, pending, created, dispatched,
                   invoked, returned>>
    /\ UNCHANGED aside

----------------------------------------------------------------------------
(* Function-call dispatch: handle_function_call *)

\* a variant of StructuralError that looks the name up in the declarations of
\* the session instead of the registry
StructuralErrorBySchema(sid, fn) ==
    IF sid \notin DOMAIN active_sessions THEN "session_not_found"
    ELSE IF \A i \in 1..Len(active_sessions[sid].function_declarations) :
                active_sessions[sid].function_declarations[i] # fn
    THEN "function_not_supported"
    ELSE "none"

\* the ValueError raised by the two checks that precede the handler, or "none"
StructuralError(sid, fn) ==
    IF sid \notin DOMAIN active_sessions THEN "session_not_found"
    ELSE IF fn \notin FunctionHandlers THEN "function_not_supported"
    ELSE "none"

\* a variant of ExceptReturn that lets the exception through
ExceptReraise(fn, err) ==
    [raised |-> TRUE, success |-> FALSE, function |-> fn, error |-> err]

\* `except Exception as e: return {"success": False, "function": ..., "error": str(e)}`
ExceptReturn(fn, err) ==
    [raised |-> FALSE, success |-> FALSE, function |-> fn, error |-> err]

\* `return {"success": True, "function": function_name, "result": result}`
SuccessReturn(fn, result) ==
    [raised |-> FALSE, success |-> TRUE, function |-> fn, result |-> result]

\* the dict appended to the session's context list after the handler
\* returned (its "timestamp", which nothing reads, is left out)
InteractionRecord(fn, args, result) ==
    [type |-> "function_call", function |-> fn, args |-> args,
     result |-> result]

\* a variant of ContextsAfterExcept that records the failed call
ContextsRecordingExcept(sid, fn, args, err) ==
    IF sid \in DOMAIN session_contexts
    THEN [session_contexts EXCEPT ![sid] =
             Append(@, InteractionRecord(fn, args,
                                         [success |-> "false", body |-> err]))]
    ELSE session_contexts

\* the context lists once the except clause has run, after a failed check or
\* a handler that raised: the append is never reached, nothing is recorded
ContextsAfterExcept(sid, fn, args, err) == session_contexts

\* a variant of ContextsAfterAppend that puts the record in front
ContextsAfterPrepend(sid, record) ==
    [session_contexts EXCEPT ![sid] = <<record>> \o @]

\* a variant of ContextsAfterAppend that writes over the last record, as an
\* update of a stale copy of the list would
ContextsAfterOverwrite(sid, record) ==
    [session_contexts EXCEPT
        ![sid] = IF @ = <<>> THEN <<record>> ELSE [@ EXCEPT ![Len(@)] = record]]

\* self.session_contexts[session_id].append(record)
ContextsAfterAppend(sid, record) ==
    [session_contexts EXCEPT ![sid] = Append(@, record)]

\* one more dispatch on sid has returned
ReturnedAfter(sid) ==
    IF sid \in DOMAIN returned THEN [returned EXCEPT ![sid] = @ + 1]
    ELSE returned

\* what handle_function_call returns when it returns without suspending
CallReturn(sid, fn, args, ext) ==
    IF StructuralError(sid, fn) # "none"
    THEN ExceptReturn(fn, StructuralError(sid, fn))
    ELSE IF HandlerRaises(fn, args) # "none"
    THEN ExceptReturn(fn, HandlerRaises(fn, args))
    ELSE SuccessReturn(fn, HandlerReturn(fn, ext))

\* the call up to its return or up to the handler's first real suspension;
\* ext is the outcome of a call the handler makes without suspending
HandleFunctionCall(sid, fn, args, ext) ==
    /\ dispatched < MaxCalls
    /\ dispatched' = dispatched + 1
    /\ UNCHANGED aside
    /\ IF StructuralError(sid, fn) # "none"
       THEN /\ session_contexts' =
                   ContextsAfterExcept(sid, fn, args, StructuralError(sid, fn))
            /\ UNCHANGED <<active_sessions, now, pending, created, invoked,
                           returned, ended_ids>>
       ELSE
         /\ invoked' = invoked + 1
         /\ IF HandlerRaises(fn, args) # "none"
            THEN /\ session_contexts' =
                        ContextsAfterExcept(sid, fn, args, HandlerRaises(fn, args))
                 /\ returned' = ReturnedAfter(sid)
                 /\ UNCHANGED pending
            ELSE IF fn \in AwaitingTools
            THEN /\ pending' = pending \cup
                        {[n |-> dispatched + 1, sid |-> sid, function |-> fn,
                          args |-> args]}
                 /\ UNCHANGED <<session_contexts, returned>>
            ELSE /\ session_contexts' =
                        ContextsAfterAppend(sid,
                            InteractionRecord(fn, args, HandlerReturn(fn, ext)))
                 /\ returned' = ReturnedAfter(sid)
                 /\ UNCHANGED pending
         /\ UNCHANGED <<active_sessions, now, created, ended_ids>>

\* what a suspended call returns once its handler has returned: the append
\* raises KeyError when the sweep has removed the list meanwhile
ResumeReturn(p, ext) ==
    IF p.sid \in DOMAIN session_contexts
    THEN SuccessReturn(p.function, HandlerReturn(p.function, ext))
    ELSE ExceptReturn(p.function, "KeyError")

\* the rest of a suspended call: the external call answers with ext, the
\* handler returns, the record is appended
HandlerResume(p, ext) ==
    /\ p \in pending
    /\ pending' = pending \ {p}
    /\ session_contexts' =
          IF p.sid \in DOMAIN session_contexts
          THEN ContextsAfterAppend(p.sid,
                   InteractionRecord(p.function, p.args,
                                     HandlerReturn(p.function, ext)))
          ELSE session_contexts
    /\ returned' = ReturnedAfter(p.sid)
    /\ UNCHANGED <<active_sessions, now, created, dispatched, invoked,
                   ended_ids>>
    /\ UNCHANGED aside

----------------------------------------------------------------------------
(* Expiry sweep: cleanup_expired_sessions *)

\* a variant of Expired that already expires a session at the maximum age
ExpiredAtMaxAge(session) == now - session.created_at >= MaxSessionAgeHours

\* a variant of Expired that passes over the sessions already ended
ExpiredUnlessEnded(session) ==
    /\ now - session.created_at > MaxSessionAgeHours
    /\ session.status # "ended"

\* now - created_at > timedelta(hours=2)
Expired(session) == now - session.created_at > MaxSessionAgeHours

ExpiredSessions ==
    {sid \in DOMAIN active_sessions : Expired(active_sessions[sid])}

\* a variant of ContextsAfterSweep that leaves the lists of the expired
\* sessions behind
ContextsKeptBySweep(ids) == session_contexts

\* `if session_id in self.session_contexts: del self.session_contexts[session_id]`
\* for every id of ids
ContextsAfterSweep(ids) == Without(session_contexts, ids)

\* for each expired id: end_session, del active_sessions[id], and
\* del session_contexts[id] when present
CleanupExpiredSessions ==
    /\ active_sessions' = Without(active_sessions, ExpiredSessions)
    /\ session_contexts' = ContextsAfterSweep(ExpiredSessions)
    /\ returned' = Without(returned, ExpiredSessions)
    /\ ended_ids' = ended_ids \cup ExpiredSessions
    /\ UNCHANGED <<now, pending, created, dispatched, invoked>>
    /\ UNCHANGED aside

----------------------------------------------------------------------------
(* The environment *)

\* an hour passes
Tick ==
    /\ now < MaxClock
    /\ now' = now + 1
    /\ UNCHANGED <<active_sessions, session_contexts, pending, created,
                   dispatched, invoked, returned, ended_ids>>
    /\ UNCHANGED aside

Next ==
    \/ \E u \in Users, l \in SessionProfiles :
           CreateSession(u, [integrations |-> l])
    \/ \E sid \in SessionIds, fn \in DispatchedNames :
           \E args \in ArgInputsFor(fn), ext \in OutcomesOf(fn) :
               HandleFunctionCall(sid, fn, args, ext)
    \/ \E p \in pending :
           \E ext \in OutcomesOf(p.function) : HandlerResume(p, ext)
    \/ \E sid \in SessionIds : GetSessionContext(sid)
    \/ \E sid \in SessionIds : EndSession(sid)
    \/ CleanupExpiredSessions
    \/ Tick

Spec == Init /\ [][Next]_vars

----------------------------------------------------------------------------
(* The declarations model: one session created with any profile of at most *)
(* MaxIntegrations integrations, then read                                  *)

CreateProfiled(user_id, integrations) ==
    /\ created = 0
    /\ CreateSession(user_id, [integrations |-> integrations])

DeclNext ==
    \/ \E u \in Users, l \in IntegrationLists(MaxIntegrations) :
           CreateProfiled(u, l)
    \/ \E sid \in SessionIds : GetSessionContext(sid)

DeclSpec == Init /\ [][DeclNext]_vars

----------------------------------------------------------------------------
(* The store under a sweep that keeps being invoked: the same operations,   *)
(* with a clock that goes on as long as a stored session has not reached    *)
(* the age at which the sweep removes it.                                   *)

\* an hour passes; past MaxClock only while a stored session is still too
\* young to be removed
TimePasses ==
    /\ \/ now < MaxClock
       \/ \E sid \in DOMAIN active_sessions :
              now - active_sessions[sid].created_at <= MaxSessionAgeHours
    /\ now' = now + 1
    /\ UNCHANGED <<active_sessions, session_contexts, pending, created,
                   dispatched, invoked, returned, ended_ids>>
    /\ UNCHANGED aside

LiveNext ==
    \/ \E u \in Users : CreateSession(u, [integrations |-> <<>>])
    \/ \E sid \in SessionIds :
           \E args \in ArgInputsFor("search_web"),
              ext \in OutcomesOf("search_web") :
               HandleFunctionCall(sid, "search_web", args, ext)
    \/ \E p \in pending :
           \E ext \in OutcomesOf(p.function) : HandlerResume(p, ext)
    \/ \E sid \in SessionIds : EndSession(sid)
    \/ CleanupExpiredSessions
    \/ TimePasses

\* the sweep runs again and again, and time goes on
LiveSpec ==
    /\ Init
    /\ [][LiveNext]_vars
    /\ WF_vars(CleanupExpiredSessions)
    /\ WF_vars(TimePasses)

----------------------------------------------------------------------------
(* The chat orchestrator: the endpoint generate_ai_response of              *)
(* api/v1/endpoints/ai.py over AIService.generate_response and              *)
(* AIService._handle_function_calling_response.  One request is followed    *)
(* from its arrival to its HTTP response; it is cut where it suspends: at   *)
(* the two completion requests and at every tool operation.  A text is a    *)
(* sequence of tokens, so that concatenation has an order.                  *)

\* bound of the model: the parts of one response of the language model
MaxParts == 2

\* chat_history[-10:]
HistoryWindow == 10

\* response.status_code != 200
HttpOk == 200

\* the status codes of the HTTPExceptions the endpoints raise
HttpBadRequest == 400
HttpInternalError == 500

\* "I executed the requested function but couldn't generate a proper
\* response. Please try again."
FallbackText == <<"I executed the requested function but couldn't generate a proper response. Please try again.">>

\* the texts the language model answers with
PartTexts == {<<>>, <<"a">>, <<"b">>}

\* the functionCall objects of the first response: "args" is a JSON object
\* or null
FunctionCallInputs ==
    {[name |-> "search_web", args |-> [isdict |-> TRUE]],
     [name |-> "search_web", args |-> [isdict |-> FALSE]],
     [name |-> "scrape_website", args |-> [isdict |-> TRUE]],
     [name |-> "unknown_tool", args |-> [isdict |-> TRUE]]}

\* the parts of a first response: text, functionCall, or neither
FirstPartInputs ==
    {[text |-> t] : t \in PartTexts}
    \cup {[functionCall |-> fc] : fc \in FunctionCallInputs}
    \cup {[inlineData |-> "blob"]}

\* the parts of a follow-up response
FollowUpPartInputs ==
    {[text |-> t] : t \in PartTexts}
    \cup {[functionCall |-> [name |-> "search_web", args |-> [isdict |-> TRUE]]],
          [inlineData |-> "blob"]}

\* the lists of at most n elements of a set
RECURSIVE ListsOf(_, _)
ListsOf(S, n) ==
    IF n = 0 THEN {<<>>}
    ELSE ListsOf(S, n - 1) \cup
         {Append(l, e) : l \in {m \in ListsOf(S, n - 1) : Len(m) = n - 1},
                         e \in S}

\* what client.post brings back: a status code and, in the JSON body, the
\* candidates, of which the code reads the first one's content.parts; the
\* non-success answer also stands for a request that fails on the network,
\* which raises the same ValueError
ApiAnswers(partInputs) ==
    {[status_code |-> HttpInternalError, candidates |-> <<>>],
     [status_code |-> HttpOk, candidates |-> <<>>]}
    \cup {[status_code |-> HttpOk, candidates |-> <<parts>>] :
             parts \in ListsOf(partInputs, MaxParts)}

\* the requests of the model: the contact dict by its keys, the user message
\* and the chat history
ChatRequests ==
    [contact : {<<>>, <<"name">>},
     user_message : {<<>>, <<" ">>, <<"q">>},
     chat_history : {<<>>,
                     <<[sender |-> "user", content |-> <<"h">>],
                       [sender |-> "ai", content |-> <<"i">>]>>}]

\* str.strip() on a text whose blanks are the tokens " "
RECURSIVE LStrip(_)
LStrip(t) == IF t # <<>> /\ Head(t) = " " THEN LStrip(Tail(t)) ELSE t

RECURSIVE RStrip(_)
RStrip(t) ==
    IF t # <<>> /\ t[Len(t)] = " " THEN RStrip(SubSeq(t, 1, Len(t) - 1)) ELSE t

Strip(t) == RStrip(LStrip(t))

\* a variant of LastN that keeps the oldest entries: seq[:n]
FirstN(seq, n) == IF Len(seq) <= n THEN seq ELSE SubSeq(seq, 1, n)

\* seq[-n:]
LastN(seq, n) ==
    IF Len(seq) <= n THEN seq ELSE SubSeq(seq, Len(seq) - n + 1, Len(seq))

\* one turn of the history in the format of the completion request
HistoryTurn(message) ==
    [role |-> IF message.sender = "user" THEN "user" ELSE "model",
     parts |-> <<[text |-> message.content]>>]

\* AIService._build_conversation_contents
BuildConversationContents(chat_history, user_message) ==
    [i \in 1..Len(LastN(chat_history, HistoryWindow)) |->
        HistoryTurn(LastN(chat_history, HistoryWindow)[i])]
    \o <<[role |-> "user", parts |-> <<[text |-> user_message]>>]>>

\* the response of the endpoint: return {"success": True, "response": ...},
\* or the HTTPException it raises
HttpAnswer(text) == [status |-> HttpOk, response |-> text, error |-> "none"]

HttpError(status, error) == [status |-> status, response |-> <<>>, error |-> error]

\* a variant of ServiceError that answers with the fallback string
ServiceErrorAnswered(error) == HttpAnswer(FallbackText)

\* a ValueError of the service: generate_response wraps every exception in
\* a ValueError, which the endpoint turns into status 400
ServiceError(error) == HttpError(HttpBadRequest, error)

\* a variant of ValidationError that lets the HTTPException through
ValidationErrorPassed(detail) == HttpError(HttpBadRequest, detail)

\* an HTTPException(400) raised inside the try block of an endpoint: it is
\* no ValueError, so `except Exception` catches it and raises
\* HTTPException(500) in its place
ValidationError(detail) == HttpError(HttpInternalError, detail)

\* the validation of generate_ai_response, "none" when the request passes
RequestInvalid(request) ==
    IF request.contact = <<>> THEN "Contact information is required"
    ELSE IF Strip(request.user_message) = <<>>
    THEN "User message cannot be empty"
    ELSE "none"

\* the request ends with this response
ChatEnds(response) ==
    /\ chat_pc' = "done"
    /\ chat_result' = response

\* the request arrives: validation, then generate_response up to the first
\* completion request; key tells whether GOOGLE_API_KEY is configured
GenerateAiResponse(request, key) ==
    /\ chat_pc = "idle"
    /\ IF RequestInvalid(request) # "none"
       THEN /\ ChatEnds(ValidationError(RequestInvalid(request)))
            /\ UNCHANGED <<conversation_contents, api_requests>>
       ELSE IF ~key
       THEN /\ ChatEnds(ServiceError("Google API key not configured"))
            /\ UNCHANGED <<conversation_contents, api_requests>>
       ELSE /\ conversation_contents' =
                   BuildConversationContents(request.chat_history,
                                             request.user_message)
            /\ api_requests' = Append(api_requests, conversation_contents')
            /\ chat_pc' = "first_request"
            /\ UNCHANGED chat_result
    /\ UNCHANGED <<function_calls, function_responses, api_responses, executed>>
    /\ UNCHANGED <<voicevars, clock, generated, health_log>>

\* the parts of candidates[0].content
PartsOf(answer) == answer.candidates[1]

\* [part['functionCall'] for the parts that have one]
RECURSIVE FunctionCallsOf(_)
FunctionCallsOf(parts) ==
    IF parts = <<>> THEN <<>>
    ELSE (IF "functionCall" \in DOMAIN Head(parts)
          THEN <<Head(parts).functionCall>> ELSE <<>>)
         \o FunctionCallsOf(Tail(parts))

\* a variant of TextOf that keeps the last text only
RECURSIVE TextOfLastPart(_)
TextOfLastPart(parts) ==
    IF parts = <<>> THEN <<>>
    ELSE IF TextOfLastPart(Tail(parts)) # <<>> THEN TextOfLastPart(Tail(parts))
    ELSE IF "text" \in DOMAIN Head(parts) THEN Head(parts).text
    ELSE <<>>

\* the texts of the parts that have a text and no functionCall, concatenated
RECURSIVE TextOf(_)
TextOf(parts) ==
    IF parts = <<>> THEN <<>>
    ELSE (IF "functionCall" \notin DOMAIN Head(parts)
             /\ "text" \in DOMAIN Head(parts)
          THEN Head(parts).text ELSE <<>>)
         \o TextOf(Tail(parts))

\* a variant of FinalTextOf that reads the first part only
FinalTextOfFirstPart(parts) ==
    IF parts # <<>> /\ "text" \in DOMAIN Head(parts) THEN Head(parts).text
    ELSE <<>>

\* the texts of the parts that have a text, concatenated (follow-up response)
RECURSIVE FinalTextOf(_)
FinalTextOf(parts) ==
    IF parts = <<>> THEN <<>>
    ELSE (IF "text" \in DOMAIN Head(parts) THEN Head(parts).text ELSE <<>>)
         \o FinalTextOf(Tail(parts))

\* {"role": "model", "parts": [{"functionCall": fc} for fc in function_calls]}
ModelTurn(calls) ==
    [role |-> "model",
     parts |-> [i \in 1..Len(calls) |-> [functionCall |-> calls[i]]]]

\* {"role": "function", "parts": [{"functionResponse": ...} for fr in ...]}
FunctionTurn(responses) ==
    [role |-> "function",
     parts |-> [i \in 1..Len(responses) |->
                   [functionResponse |-> [name |-> responses[i].name,
                                          response |-> responses[i].response]]]]

\* the first completion request is answered
FirstResponse(answer) ==
    /\ chat_pc = "first_request"
    /\ api_responses' = Append(api_responses, answer)
    /\ IF answer.status_code # HttpOk
       THEN /\ ChatEnds(ServiceError("Gemini API error"))
            /\ UNCHANGED <<conversation_contents, function_calls>>
       ELSE IF answer.candidates = <<>>
       THEN /\ ChatEnds(ServiceError("No response candidates from Gemini API"))
            /\ UNCHANGED <<conversation_contents, function_calls>>
       ELSE IF PartsOf(answer) = <<>>
       THEN /\ ChatEnds(ServiceError("No content parts in Gemini API response"))
            /\ UNCHANGED <<conversation_contents, function_calls>>
       ELSE IF FunctionCallsOf(PartsOf(answer)) # <<>>
       THEN /\ function_calls' = FunctionCallsOf(PartsOf(answer))
            /\ conversation_contents' =
                   Append(conversation_contents, ModelTurn(function_calls'))
            /\ chat_pc' = "tools"
            /\ UNCHANGED chat_result
       ELSE IF TextOf(PartsOf(answer)) # <<>>
       THEN /\ ChatEnds(HttpAnswer(TextOf(PartsOf(answer))))
            /\ UNCHANGED <<conversation_contents, function_calls>>
       ELSE /\ ChatEnds(ServiceError("Empty response from Gemini API"))
            /\ UNCHANGED <<conversation_contents, function_calls>>
    /\ UNCHANGED <<function_responses, api_requests, executed>>
    /\ UNCHANGED <<voicevars, clock, generated, health_log>>

\* the names whose operation integrations_service runs
ChatTools == {"search_web", "scrape_website"}

\* whether the operation of integrations_service is reached for this call:
\* the name is known and reading the arguments does not raise
Runs(fc) == fc.name \in ChatTools /\ fc.args.isdict

\* a variant of CallResult that reports every call as a success
CallResultOk(fc, ext) == [success |-> TRUE]

\* the result of one iteration of the loop; ext tells whether the operation
\* of integrations_service reports success
CallResult(fc, ext) ==
    IF fc.name \notin ChatTools
    THEN [success |-> FALSE, error |-> "Unknown function"]
    ELSE IF ~fc.args.isdict
    THEN [success |-> FALSE, error |-> "AttributeError"]
    ELSE IF ext = "ok" THEN [success |-> TRUE]
    ELSE [success |-> FALSE, error |-> "tool_error"]

\* the function call the loop is at
CurrentCall == function_calls[Len(function_responses) + 1]

\* one iteration of the loop over function_calls; after the last one the
\* function turn is appended and the follow-up request is sent
ExecuteFunctionCall(ext) ==
    /\ chat_pc = "tools"
    /\ executed' = IF Runs(CurrentCall) THEN Append(executed, CurrentCall)
                   ELSE executed
    /\ function_responses' =
          Append(function_responses,
                 [name |-> CurrentCall.name,
                  response |-> CallResult(CurrentCall, ext)])
    /\ IF Len(function_responses') = Len(function_calls)
       THEN /\ conversation_contents' =
                   Append(conversation_contents,
                          FunctionTurn(function_responses'))
            /\ api_requests' = Append(api_requests, conversation_contents')
            /\ chat_pc' = "follow_up"
       ELSE UNCHANGED <<conversation_contents, api_requests, chat_pc>>
    /\ UNCHANGED <<function_calls, api_responses, chat_result>>
    /\ UNCHANGED <<voicevars, clock, generated, health_log>>

\* a variant of FollowUpAnswer that raises when there is no text
FollowUpAnswerStrict(answer) ==
    IF answer.candidates # <<>> /\ FinalTextOf(PartsOf(answer)) # <<>>
    THEN HttpAnswer(FinalTextOf(PartsOf(answer)))
    ELSE ServiceError("Empty response from Gemini API")

\* what the request answers once the follow-up response is there
FollowUpAnswer(answer) ==
    IF answer.candidates # <<>> /\ FinalTextOf(PartsOf(answer)) # <<>>
    THEN HttpAnswer(FinalTextOf(PartsOf(answer)))
    ELSE HttpAnswer(FallbackText)

\* a variant of FollowUpResponse that starts another round of tools when the
\* follow-up response asks for some
FollowUpResponseLooping(answer) ==
    /\ chat_pc = "follow_up"
    /\ api_responses' = Append(api_responses, answer)
    /\ IF answer.status_code # HttpOk
       THEN /\ ChatEnds(ServiceError("Gemini API error"))
            /\ UNCHANGED <<function_calls, function_responses>>
       ELSE IF answer.candidates # <<>>
               /\ FunctionCallsOf(PartsOf(answer)) # <<>>
       THEN /\ function_calls' = FunctionCallsOf(PartsOf(answer))
            /\ function_responses' = <<>>
            /\ chat_pc' = "tools"
            /\ UNCHANGED chat_result
       ELSE /\ ChatEnds(FollowUpAnswer(answer))
            /\ UNCHANGED <<function_calls, function_responses>>
    /\ UNCHANGED <<conversation_contents, api_requests, executed>>
    /\ UNCHANGED <<voicevars, clock, generated, health_log>>

\* the follow-up completion request is answered
FollowUpResponse(answer) ==
    /\ chat_pc = "follow_up"
    /\ api_responses' = Append(api_responses, answer)
    /\ IF answer.status_code # HttpOk
       THEN ChatEnds(ServiceError("Gemini API error"))
       ELSE ChatEnds(FollowUpAnswer(answer))
    /\ UNCHANGED <<conversation_contents, function_calls, function_responses,
                   api_requests, executed>>
    /\ UNCHANGED <<voicevars, clock, generated, health_log>>

ChatNext ==
    \/ \E request \in ChatRequests, key \in BOOLEAN :
           GenerateAiResponse(request, key)
    \/ \E answer \in ApiAnswers(FirstPartInputs) : FirstResponse(answer)
    \/ \E ext \in ExternalOutcomes : ExecuteFunctionCall(ext)
    \/ \E answer \in ApiAnswers(FollowUpPartInputs) : FollowUpResponse(answer)

ChatSpec == Init /\ [][ChatNext]_vars

----------------------------------------------------------------------------
(* The conversation window: generate-response requests whose chat history   *)
(* is longer than the window of _build_conversation_contents.               *)

\* bound of the model: the longest chat history of a request
MaxHistory == 12

\* 'sender' of a stored message: "user", or anything else for the model side
Senders == {"user", "ai"}

\* the content of the i-th message of a history: i tokens, so that every
\* position of a history has a content of its own
ContentAt(i) == [k \in 1..i |-> "h"]

\* bound of the model: the senders of a history repeat with this period
SenderPeriod == 3

\* the chat histories of the model: every length up to MaxHistory, every
\* assignment of senders of period SenderPeriod
HistoriesOfLength(n) ==
    {[i \in 1..n |-> [sender |-> senders[((i - 1) % SenderPeriod) + 1],
                      content |-> ContentAt(i)]] :
        senders \in [1..SenderPeriod -> Senders]}

ChatHistories == UNION {HistoriesOfLength(n) : n \in 0..MaxHistory}

HistoryRequests ==
    [contact : {<<"name">>},
     user_message : {<<>>, <<"q">>, <<"q", " ">>},
     chat_history : ChatHistories]

HistoryNext ==
    \E request \in HistoryRequests, key \in BOOLEAN :
        GenerateAiResponse(request, key)

HistorySpec == Init /\ [][HistoryNext]_vars

----------------------------------------------------------------------------
(* The health endpoints (api/v1/endpoints/health.py): each request probes   *)
(* its downstream services and answers with a dict, which FastAPI sends     *)
(* with status 200.                                                         *)

\* bound of the model: the health requests served
MaxHealthRequests == 2

\* the query on user_profiles returns, or raises
SupabaseOutcomes == {"ok", "raise"}

\* the GET on the models list answers with a status code, or raises
GoogleOutcomes ==
    {[status_code |-> code] : code \in {HttpOk, 403, HttpInternalError}}
    \cup {[error |-> "ConnectError"]}

\* a handler that returns a dict: status 200 with that body
HealthAnswer(endpoint, body) ==
    [endpoint |-> endpoint, status_code |-> HttpOk, body |-> body]

\* the body of supabase_health_check
SupabaseBody(outcome) ==
    IF outcome = "ok"
    THEN [status |-> "healthy", supabase |-> "connected"]
    ELSE [status |-> "unhealthy", supabase |-> "disconnected"]

\* GET /health/supabase
SupabaseHealthCheck(outcome) ==
    /\ Len(health_log) < MaxHealthRequests
    /\ health_log' =
           Append(health_log, HealthAnswer("supabase", SupabaseBody(outcome)))
    /\ UNCHANGED <<voicevars, clock, generated, chatvars>>

\* checks["google"]; key tells whether GOOGLE_API_KEY is configured
GoogleCheck(key, outcome) ==
    IF ~key THEN [status |-> "not_configured"]
    ELSE IF "error" \in DOMAIN outcome
    THEN [status |-> "unhealthy", error |-> outcome.error]
    ELSE [status |-> IF outcome.status_code = HttpOk THEN "healthy"
                     ELSE "unhealthy",
          response_code |-> outcome.status_code]

\* checks["supabase"]
SupabaseCheck(outcome) ==
    IF outcome = "ok" THEN [status |-> "healthy"] ELSE [status |-> "unhealthy"]

\* a variant of OverallStatus that counts a check that is not configured as
\* a check that failed
OverallStatusStrict(checks) ==
    IF \A name \in DOMAIN checks : checks[name].status = "healthy"
    THEN "healthy" ELSE "unhealthy"

\* overall_status of external_apis_health_check
OverallStatus(checks) ==
    IF \A name \in {n \in DOMAIN checks : checks[n].status # "not_configured"} :
           checks[name].status = "healthy"
    THEN "healthy" ELSE "unhealthy"

\* the checks dict of external_apis_health_check
ExternalChecks(key, google, supa) ==
    [google |-> GoogleCheck(key, google), supabase |-> SupabaseCheck(supa)]

\* GET /health/external-apis
ExternalApisHealthCheck(key, google, supa) ==
    /\ Len(health_log) < MaxHealthRequests
    /\ health_log' =
           Append(health_log,
                  HealthAnswer("external-apis",
                      [status |-> OverallStatus(ExternalChecks(key, google, supa)),
                       checks |-> ExternalChecks(key, google, supa)]))
    /\ UNCHANGED <<voicevars, clock, generated, chatvars>>

HealthNext ==
    \/ \E outcome \in SupabaseOutcomes : SupabaseHealthCheck(outcome)
    \/ \E key \in BOOLEAN, google \in GoogleOutcomes, supa \in SupabaseOutcomes :
           ExternalApisHealthCheck(key, google, supa)

HealthSpec == Init /\ [][HealthNext]_vars

----------------------------------------------------------------------------
(* The id and credential model: create_session with its readings of the     *)
(* clock and its random suffix.  time.time() is read for the session id,    *)
(* then twice for the token, then utcnow() for created_at; between two      *)
(* readings the clock may pass a second boundary.                           *)

\* bounds of the model
MaxCreates == 2
MaxSeconds == 2

\* int(time.time()) + 3600
TokenLifetimeSeconds == 3600

\* "expires_in": 3600
ExpiresInSeconds == 3600

\* the values of uuid.uuid4().hex[:8]: two of the 16^8 strings
SuffixValues == {"0a1b2c3d", "4e5f6a7b"}

\* the owners of the sessions of this model
Owners == {"dev_user", "user_a"}

\* f"voice_session_{int(time.time())}_{uuid.uuid4().hex[:8]}"
SessionIdOf(time, suffix) ==
    [prefix |-> "voice_session", time |-> time, suffix |-> suffix]

\* the keys of token_data, in insertion order
TokenKeys == <<"session_id", "user_id", "created_at", "expires_at">>

\* json.dumps of a dict with these keys: its items in insertion order
JsonDumps(dict) == [i \in 1..Len(TokenKeys) |-> <<TokenKeys[i], dict[TokenKeys[i]]>>]

\* base64.b64encode(...).decode()
B64Encode(text) == [b64 |-> text]

\* _generate_ephemeral_token; t1 and t2 are its two readings of time.time()
GenerateEphemeralToken(session_id, user_id, t1, t2) ==
    [prefix |-> "ephemeral_",
     token |-> B64Encode(JsonDumps(
                  [session_id |-> session_id,
                   user_id |-> user_id,
                   created_at |-> t1,
                   expires_at |-> t2 + TokenLifetimeSeconds]))]

\* the session_context dict of create_session, with its credential
NewTimedSession(sid, user_id, contact, token, t) ==
    [session_id |-> sid,
     user_id |-> user_id,
     contact |-> contact,
     created_at |-> t,
     ephemeral_token |-> token,
     function_declarations |-> GetFunctionDeclarations(contact.integrations),
     status |-> "initialized"]

\* what this create_session returns
TimedCreateReturn(sid, user_id, contact, token) ==
    [raised |-> FALSE,
     session_id |-> sid,
     ephemeral_token |-> token,
     function_declarations |-> GetFunctionDeclarations(contact.integrations),
     expires_in |-> ExpiresInSeconds]

\* create_session; d1, d2 and d3 are the seconds that pass between its four
\* readings of the clock, suffix is the draw of uuid4
CreateSessionAt(user_id, contact, suffix, d1, d2, d3) ==
    /\ Len(generated) < MaxCreates
    /\ clock + d1 + d2 + d3 <= MaxSeconds
    /\ LET sid == SessionIdOf(clock, suffix)
           token == GenerateEphemeralToken(sid, user_id, clock + d1,
                                           clock + d1 + d2)
       IN /\ active_sessions' =
                 DictPut(active_sessions, sid,
                         NewTimedSession(sid, user_id, contact, token,
                                         clock + d1 + d2 + d3))
          /\ session_contexts' = DictPut(session_contexts, sid, <<>>)
          /\ returned' = DictPut(returned, sid, 0)
          /\ generated' = Append(generated, sid)
    /\ clock' = clock + d1 + d2 + d3
    /\ UNCHANGED <<now, pending, created, dispatched, invoked, ended_ids>>
    /\ UNCHANGED <<chatvars, health_log>>

\* a second passes
SecondPasses ==
    /\ clock < MaxSeconds
    /\ clock' = clock + 1
    /\ UNCHANGED <<voicevars, generated, chatvars, health_log>>

ClockNext ==
    \/ \E u \in Owners, suffix \in SuffixValues, d1 \in 0..1, d2 \in 0..1,
          d3 \in 0..1 :
           CreateSessionAt(u, [integrations |-> <<>>], suffix, d1, d2, d3)
    \/ \E sid \in DOMAIN active_sessions :
           \E args \in ArgInputsFor("generate_document") :
               HandleFunctionCall(sid, "generate_document", args, "ok")
    \/ \E sid \in DOMAIN active_sessions : GetSessionContext(sid)
    \/ SecondPasses

ClockSpec == Init /\ [][ClockNext]_vars

----------------------------------------------------------------------------
(* The request/response interface: the endpoints of                         *)
(* api/v1/endpoints/voice.py over the voice service, next to the            *)
(* generate-response endpoint.  The caller is authenticated.  What an       *)
(* endpoint responds is an operator of the state the request arrives in.    *)

\* the parameters of VoiceService.create_session besides self
CreateSessionParameters == {"user_id", "contact"}

\* the keyword arguments create_voice_session calls it with
CreateSessionKeywords == {"user_id", "contact", "user_token"}

\* Python binds a call only when every keyword names a parameter; otherwise
\* the call raises TypeError before the method body starts
CallBinds(keywords, parameters) == keywords \subseteq parameters

\* what create_voice_session responds
CreateVoiceSessionResponse(user_id, contact) ==
    IF CallBinds(CreateSessionKeywords, CreateSessionParameters)
    THEN [status |-> HttpOk, response |-> CreateReturn(user_id, contact),
          error |-> "none"]
    ELSE HttpError(HttpInternalError, "TypeError")

\* POST /session/create
CreateVoiceSession(user_id, contact) ==
    IF CallBinds(CreateSessionKeywords, CreateSessionParameters)
    THEN CreateSession(user_id, contact)
    ELSE UNCHANGED vars

\* the function_data bodies of the model: "name" missing, empty or given
FunctionDataInputs ==
    [name : {NoneValue, "", "search_web", "unknown_tool"},
     args : {[isdict |-> TRUE, items |-> <<>>]}]

\* what the function-call endpoint responds when it responds without the
\* handler suspending
FunctionCallResponse(sid, data, ext) ==
    IF ~Truthy(data.name) THEN ValidationError("Function name is required")
    ELSE [status |-> HttpOk,
          response |-> CallReturn(sid, data.name, data.args, ext),
          error |-> "none"]

\* POST /session/{session_id}/function-call
FunctionCallEndpoint(sid, data, ext) ==
    IF ~Truthy(data.name) THEN UNCHANGED vars
    ELSE HandleFunctionCall(sid, data.name, data.args, ext)

\* the status of HTTPException(status_code=404)
HttpNotFound == 404

\* what GET /session/{session_id}/context responds
ContextResponse(sid) ==
    IF GetContextReturn(sid).raised
    THEN HttpError(HttpNotFound, GetContextReturn(sid).error)
    ELSE [status |-> HttpOk, response |-> GetContextReturn(sid),
          error |-> "none"]

\* GET /session/{session_id}/context
ContextEndpoint(sid) == GetSessionContext(sid)

\* what POST /session/{session_id}/end responds: the result of end_session
EndVoiceSessionResponse(sid) ==
    [status |-> HttpOk, response |-> EndReturn(sid), error |-> "none"]

\* POST /session/{session_id}/end
EndVoiceSession(sid) == EndSession(sid)

ApiNext ==
    \/ \E u \in Users, l \in SessionProfiles :
           CreateVoiceSession(u, [integrations |-> l])
    \/ \E sid \in SessionIds, data \in FunctionDataInputs,
          ext \in ExternalOutcomes :
           FunctionCallEndpoint(sid, data, ext)
    \/ \E sid \in SessionIds : ContextEndpoint(sid)
    \/ \E sid \in SessionIds : EndVoiceSession(sid)
    \/ ChatNext

ApiSpec == Init /\ [][ApiNext]_vars

----------------------------------------------------------------------------
(* Claims *)

\* the elements of a sequence
Range(seq) == {seq[i] : i \in 1..Len(seq)}

AlwaysOnTools == {"generate_document", "search_web", "scrape_website"}

\* the tool gated by an integration id, for the ids that gate one
GatedTool(id) ==
    CASE id = "api-request-tool" -> "make_api_request"
      [] id = "domain-checker-tool" -> "check_domain_availability"
      [] id = "webhook-trigger" -> "trigger_webhook"
      [] id = "google-sheets" -> "manage_google_sheets"
      [] id \in {"notion-oauth-source", "notion-oauth-action"} -> "manage_notion"
      [] OTHER -> "none"

\* the tools a profile is entitled to
EntitledTools(integrations) ==
    AlwaysOnTools \cup
    ({GatedTool(integrations[i].integrationId) :
         i \in {j \in 1..Len(integrations) : integrations[j].enabled}}
     \ {"none"})

\* C1: the tool schema set of every created session is exactly the three
\* always-on tools plus the gated tools of the integrations its profile lists
\* as enabled, each once; it is never empty, and has 3 elements for a profile
\* without integrations.
C1_ToolSchemaSet ==
    \A sid \in DOMAIN active_sessions :
        LET session == active_sessions[sid]
            decls == session.function_declarations
        IN /\ Range(decls) = EntitledTools(session.contact.integrations)
           /\ Cardinality(Range(decls)) = Len(decls)
           /\ Len(decls) >= 3
           /\ session.contact.integrations = <<>> => Len(decls) = 3
           /\ GetContextReturn(sid).session.function_declarations = decls

\* C1 witness: a stored session whose profile lists one gated integration as
\* enabled and another as disabled, with 4 declarations
C1_Witness ==
    \E sid \in DOMAIN active_sessions :
        LET l == active_sessions[sid].contact.integrations IN
        /\ Len(l) = 2
        /\ l[1].integrationId = "google-sheets" /\ l[1].enabled
        /\ l[2].integrationId = "webhook-trigger" /\ ~l[2].enabled
        /\ Len(active_sessions[sid].function_declarations) = 4


\* the dispatches on sid that are suspended in their handler
PendingOn(sid) == {p \in pending : p.sid = sid}

\* C2: with N dispatches that named a registered tool returned on a stored
\* session (handler succeeded or failed) and none in flight, get_session_context
\* returns exactly N interaction records.
C2_RoundTrip ==
    \A sid \in DOMAIN active_sessions :
        PendingOn(sid) = {} =>
            /\ ~GetContextReturn(sid).raised
            /\ Len(GetContextReturn(sid).context) = returned[sid]

\* C3: a dispatch on a stored session whose handler raises (a missing required
\* argument, say) appends exactly one interaction record, and that record
\* carries the failure (result.success is false).
C3_FailureRecorded ==
    [][\A sid \in SessionIds, fn \in FunctionHandlers, args \in ArgInputs :
          ( /\ sid \in DOMAIN active_sessions
            /\ HandlerRaises(fn, args) # "none"
            /\ HandleFunctionCall(sid, fn, args, "ok") )
          => /\ Len(session_contexts'[sid]) = Len(session_contexts[sid]) + 1
             /\ session_contexts'[sid][Len(session_contexts'[sid])]
                    .result.success = "false"]_vars

\* C4: on a stored session, for every registered tool and every argument
\* value that makes its handler raise (no JSON object, the required argument
\* missing or empty), handle_function_call returns normally a value whose
\* success is false and which names the tool and the error.
C4_HandlerFailureReturned ==
    \A fn \in FunctionHandlers :
        \A args \in {a \in ArgInputsFor(fn) : HandlerRaises(fn, a) # "none"},
           sid \in DOMAIN active_sessions, ext \in OutcomesOf(fn) :
                CallReturn(sid, fn, args, ext) =
                    [raised |-> FALSE, success |-> FALSE, function |-> fn,
                     error |-> HandlerRaises(fn, args)]

\* C4 witness: a dispatch whose handler raised has returned on a stored session
\* (it is counted as returned and left no record), next to one that succeeded
C4_Witness ==
    \E sid \in DOMAIN active_sessions :
        /\ PendingOn(sid) = {}
        /\ returned[sid] = 2
        /\ Len(session_contexts[sid]) = 1

\* C5: a dispatch with a session id that is not in the store raises NotFound,
\* and a dispatch on a stored session with a tool name that is not registered
\* raises UnsupportedTool; neither is returned as a result value.
C5_StructuralFailureRaised ==
    \A sid \in SessionIds, fn \in FunctionNames, args \in ArgInputs,
       ext \in ExternalOutcomes :
        LET r == CallReturn(sid, fn, args, ext) IN
        /\ sid \notin DOMAIN active_sessions =>
               r.raised /\ r.error = "session_not_found"
        /\ sid \in DOMAIN active_sessions /\ fn \notin FunctionHandlers =>
               r.raised /\ r.error = "function_not_supported"

\* C6: a dispatch that fails structurally (session id not in the store, or
\* tool name not registered) invokes no handler and changes no session entry
\* and no interaction log.
C6_StructuralFailureFrame ==
    [][dispatched' # dispatched =>
          \A sid \in SessionIds, fn \in FunctionNames :
              sid \notin DOMAIN active_sessions \/ fn \notin FunctionHandlers =>
                  \A args \in ArgInputs :
                      HandleFunctionCall(sid, fn, args, "ok") =>
                          /\ active_sessions' = active_sessions
                          /\ session_contexts' = session_contexts
                          /\ invoked' = invoked
                          /\ pending' = pending]_vars

\* C6 witness: with a record in a stored session's log, one dispatch has been
\* turned away before any handler
C6_Witness ==
    /\ dispatched = 2
    /\ invoked = 1
    /\ \E sid \in DOMAIN session_contexts : Len(session_contexts[sid]) = 1

\* C7 (as stated): once end_session has succeeded on an id, another
\* end_session on that id reports the session as not found.
C7_SecondEndNotFound ==
    \A sid \in ended_ids :
        /\ ~EndReturn(sid).success
        /\ EndReturn(sid).error = "Session not found"

\* C7 (amended): end_session succeeds on every stored id, keeps the entry, and
\* therefore succeeds again when called a second time; only for an id that is
\* not in the store does it report "Session not found", as a returned value.
C7_SecondEndSucceeds ==
    [][\A sid \in SessionIds :
          EndSession(sid) =>
              IF sid \in DOMAIN active_sessions
              THEN /\ EndReturn(sid).success /\ ~EndReturn(sid).raised
                   /\ sid \in DOMAIN active_sessions'
                   /\ EndReturn(sid)'.success /\ ~EndReturn(sid)'.raised
              ELSE /\ ~EndReturn(sid).success /\ ~EndReturn(sid).raised
                   /\ EndReturn(sid).error = "Session not found"]_vars

\* C7 witness: a session ended an hour ago or more is still stored, and ending
\* it again succeeds
C7_Witness ==
    \E sid \in ended_ids \cap DOMAIN active_sessions :
        /\ active_sessions[sid].status = "ended"
        /\ active_sessions[sid].ended_at # now
        /\ EndReturn(sid).success

C9_SweepRemovesExpiredOnly ==
    [][CleanupExpiredSessions =>
          \A sid \in DOMAIN active_sessions :
              IF now - active_sessions[sid].created_at > 2
              THEN /\ sid \notin DOMAIN active_sessions'
                   /\ sid \notin DOMAIN session_contexts'
              ELSE /\ sid \in DOMAIN active_sessions'
                   /\ active_sessions'[sid] = active_sessions[sid]
                   /\ sid \in DOMAIN session_contexts'
                   /\ session_contexts'[sid] = session_contexts[sid]]_vars

\* C9 witness: the first session has been swept at the age of 3 hours while
\* the second, exactly 2 hours old, is still stored with its log
C9_Witness ==
    /\ created = 2
    /\ 1 \notin DOMAIN active_sessions
    /\ 1 \notin DOMAIN session_contexts
    /\ 2 \in DOMAIN active_sessions
    /\ now - active_sessions[2].created_at = 2
    /\ Len(session_contexts[2]) = 1

----------------------------------------------------------------------------
(* Claims about the chat orchestrator *)

\* the first and the second answer of the language model, once received
FirstAnswer == api_responses[1]
SecondAnswer == api_responses[2]

\* an answer that carries parts
HasParts(answer) ==
    /\ answer.status_code = 200
    /\ answer.candidates # <<>>
    /\ answer.candidates[1] # <<>>

\* the tool-call parts of a list of parts, in order
RequestedCalls(parts) ==
    LET idx == {i \in 1..Len(parts) : "functionCall" \in DOMAIN parts[i]}
        f[i \in 0..Len(parts)] ==
            IF i = 0 THEN <<>>
            ELSE IF i \in idx THEN Append(f[i - 1], parts[i].functionCall)
            ELSE f[i - 1]
    IN f[Len(parts)]

\* the texts of the text parts of a list of parts, concatenated in order
ConcatTexts(parts) ==
    LET f[i \in 0..Len(parts)] ==
            IF i = 0 THEN <<>>
            ELSE IF "text" \in DOMAIN parts[i] THEN f[i - 1] \o parts[i].text
            ELSE f[i - 1]
    IN f[Len(parts)]

\* the first answer has been received and contains a tool-call part
FirstHasCalls ==
    /\ Len(api_responses) >= 1
    /\ HasParts(FirstAnswer)
    /\ RequestedCalls(FirstAnswer.candidates[1]) # <<>>

\* a requested call whose tool operation is run: a known tool with a JSON
\* object as arguments
IsRun(fc) == fc.name \in {"search_web", "scrape_website"} /\ fc.args.isdict

\* C11: when the first response contains a tool-call part, the requested
\* tools are executed first, then exactly one follow-up request is sent, with
\* the conversation of the first request extended by the model turn and the
\* function turn, and when the follow-up response carries text the answer is
\* the concatenation of its text parts.
C11_ToolRoundThenFollowUp ==
    FirstHasCalls =>
        LET calls == RequestedCalls(FirstAnswer.candidates[1]) IN
        /\ chat_pc \in {"tools", "follow_up", "done"}
        /\ chat_pc = "tools" =>
               /\ Len(api_requests) = 1
               /\ Len(function_responses) < Len(calls)
        /\ chat_pc \in {"follow_up", "done"} =>
               /\ executed = SelectSeq(calls, IsRun)
               /\ Len(api_requests) = 2
               /\ api_requests[2] =
                      api_requests[1] \o
                      <<[role |-> "model",
                         parts |-> [i \in 1..Len(calls) |->
                                       [functionCall |-> calls[i]]]],
                        [role |-> "function",
                         parts |-> [i \in 1..Len(calls) |->
                                       [functionResponse |->
                                           function_responses[i]]]]>>
        /\ ( /\ chat_pc = "done"
             /\ HasParts(SecondAnswer)
             /\ ConcatTexts(SecondAnswer.candidates[1]) # <<>> ) =>
               chat_result = [status |-> 200,
                              response |-> ConcatTexts(SecondAnswer.candidates[1]),
                              error |-> "none"]

\* C11 witness: the first response was a single tool call without any text,
\* and the answer is the two texts of the follow-up response in their order
C11_Witness ==
    /\ chat_pc = "done"
    /\ Len(api_responses) = 2
    /\ FirstAnswer.candidates =
           <<<<[functionCall |-> [name |-> "search_web",
                                  args |-> [isdict |-> TRUE]]]>>>>
    /\ Len(api_requests) = 2
    /\ chat_result.status = 200
    /\ chat_result.response = <<"b", "a">>

\* C12: when tools were executed and the follow-up response arrives with no
\* candidates or without text, the request ends with the fixed fallback
\* string as its answer, not with an error.
C12_FallbackAnswer ==
    ( /\ chat_pc = "done"
      /\ Len(api_responses) = 2
      /\ SecondAnswer.status_code = 200
      /\ \/ SecondAnswer.candidates = <<>>
         \/ ConcatTexts(SecondAnswer.candidates[1]) = <<>> )
    => /\ chat_result.status = 200
       /\ chat_result.error = "none"
       /\ chat_result.response = <<"I executed the requested function but couldn't generate a proper response. Please try again.">>

\* C12 witness: a tool ran, the follow-up response had candidates but only
\* a part without text, and the fallback string was returned
C12_Witness ==
    /\ chat_pc = "done"
    /\ Len(executed) = 1
    /\ Len(api_responses) = 2
    /\ SecondAnswer.candidates = <<<<[inlineData |-> "blob"]>>>>
    /\ chat_result.status = 200
    /\ chat_result.response = FallbackText

\* C13: a request sends at most two completion requests, runs each tool
\* call of the first response at most once and in order, and never runs a
\* tool call of the second response.
C13_OneToolRound ==
    /\ Len(api_requests) <= 2
    /\ Len(api_responses) <= 2
    /\ IF FirstHasCalls
       THEN LET calls == RequestedCalls(FirstAnswer.candidates[1]) IN
            /\ Len(function_responses) <= Len(calls)
            /\ executed =
                   SelectSeq(SubSeq(calls, 1, Len(function_responses)), IsRun)
       ELSE executed = <<>> /\ Len(api_requests) <= 1

\* C13 witness: the follow-up response asked for search_web; the request is
\* over and only the scrape_website call of the first response has run
C13_Witness ==
    /\ chat_pc = "done"
    /\ Len(api_responses) = 2
    /\ HasParts(SecondAnswer)
    /\ RequestedCalls(SecondAnswer.candidates[1]) # <<>>
    /\ executed = <<[name |-> "scrape_website", args |-> [isdict |-> TRUE]]>>
    /\ Len(api_requests) = 2

\* the first answer has been received with status 200 and asks for no tool
FirstWithoutCalls ==
    /\ Len(api_responses) >= 1
    /\ FirstAnswer.status_code = 200
    /\ ~FirstHasCalls

\* the messages of the three ways in which a first response is empty
EmptyResponseErrors ==
    {"No response candidates from Gemini API",
     "No content parts in Gemini API response",
     "Empty response from Gemini API"}

\* C14 (as stated): a first response without tool-call part is answered with
\* the concatenation of its text parts, whatever that is; only a response
\* without candidates or without parts fails.
C14_TextReturned ==
    FirstWithoutCalls =>
        IF HasParts(FirstAnswer)
        THEN chat_result = [status |-> 200,
                            response |-> ConcatTexts(FirstAnswer.candidates[1]),
                            error |-> "none"]
        ELSE chat_result.error \in EmptyResponseErrors

\* C14 (amended): a first response without tool-call part ends the request at
\* once, no tool is run and no second request is sent; the answer is the
\* concatenation of its text parts in order when that is not empty, and the
\* request fails with an empty-response error when there are no candidates,
\* no parts, or no text in the parts.
C14_TextOrEmptyResponse ==
    FirstWithoutCalls =>
        /\ chat_pc = "done"
        /\ executed = <<>>
        /\ function_responses = <<>>
        /\ Len(api_requests) = 1
        /\ Len(api_responses) = 1
        /\ IF HasParts(FirstAnswer)
              /\ ConcatTexts(FirstAnswer.candidates[1]) # <<>>
           THEN chat_result =
                    [status |-> 200,
                     response |-> ConcatTexts(FirstAnswer.candidates[1]),
                     error |-> "none"]
           ELSE /\ chat_result.status # 200
                /\ chat_result.response = <<>>
                /\ chat_result.error \in EmptyResponseErrors
                /\ chat_result.error = "Empty response from Gemini API"
                       <=> HasParts(FirstAnswer)

\* C14 witness: the first response had two parts, an empty text and a part
\* that is no text, and the request failed as an empty response
C14_Witness ==
    /\ chat_pc = "done"
    /\ Len(api_responses) = 1
    /\ FirstAnswer.candidates = <<<<[text |-> <<>>], [inlineData |-> "blob"]>>>>
    /\ chat_result.error = "Empty response from Gemini API"
    /\ Len(api_requests) = 1

\* the conversation of the first request, extended for the calls and their
\* entries
ExtendedConversation(first, calls, entries) ==
    first \o
    <<[role |-> "model",
       parts |-> [i \in 1..Len(calls) |-> [functionCall |-> calls[i]]]],
      [role |-> "function",
       parts |-> [i \in 1..Len(entries) |-> [functionResponse |-> entries[i]]]]>>

\* C15: the tool round extends the conversation by one model turn carrying
\* the requested calls and then one function turn with one entry per call,
\* in request order; every iteration adds the entry of its call, marked
\* success false when the tool fails, is unknown or cannot read its
\* arguments, and the round goes on to the follow-up request in each case.
C15_ToolResultTurn ==
    [][/\ \A ext \in {"ok", "fail"} :
              ExecuteFunctionCall(ext) =>
                  LET call == function_calls[Len(function_responses) + 1]
                      entry == function_responses'[Len(function_responses')]
                  IN /\ Len(function_responses') = Len(function_responses) + 1
                     /\ SubSeq(function_responses', 1, Len(function_responses))
                            = function_responses
                     /\ entry.name = call.name
                     /\ entry.response.success = (IsRun(call) /\ ext = "ok")
                     /\ chat_pc' = IF Len(function_responses') = Len(function_calls)
                                   THEN "follow_up" ELSE "tools"
       /\ (chat_pc' \in {"follow_up", "done"} /\ Len(api_requests') = 2) =>
              /\ function_calls' = RequestedCalls(FirstAnswer'.candidates[1])
              /\ Len(function_responses') = Len(function_calls')
              /\ api_requests'[2] =
                     ExtendedConversation(api_requests'[1], function_calls',
                                          function_responses')
              /\ conversation_contents' = api_requests'[2]
              /\ Len(conversation_contents') = Len(api_requests'[1]) + 2]_vars

\* C15 witness: search_web failed and the second call named an unknown tool;
\* both have their entry, in this order, and the request got its answer
C15_Witness ==
    /\ chat_pc = "done"
    /\ chat_result.status = 200
    /\ function_responses =
           <<[name |-> "search_web",
              response |-> [success |-> FALSE, error |-> "tool_error"]],
             [name |-> "unknown_tool",
              response |-> [success |-> FALSE, error |-> "Unknown function"]]>>
    /\ conversation_contents[Len(conversation_contents)].role = "function"
    /\ Len(conversation_contents[Len(conversation_contents)].parts) = 2

\* the request has ended after at least one answer of the language model
EndedAfterAnswer == chat_pc = "done" /\ Len(api_responses) >= 1

\* C16 (as stated): whatever the language model answers, the request ends
\* with an answer string, not with an error.
C16_AlwaysAnswered ==
    EndedAfterAnswer =>
        /\ chat_result.status = 200
        /\ chat_result.response # <<>>

\* C16 (amended): the request ends with an answer string exactly when the
\* first response has text and no tool call, or has tool calls and the
\* follow-up request is answered with status 200 (whatever the tools did);
\* when a completion request is answered with another status, or the first
\* response has no candidates, no parts or no text, it ends with an error of
\* status 400 and no answer.
C16_AnswerOrError ==
    EndedAfterAnswer =>
        IF \/ /\ FirstHasCalls
              /\ Len(api_responses) = 2
              /\ SecondAnswer.status_code = 200
           \/ /\ FirstWithoutCalls
              /\ HasParts(FirstAnswer)
              /\ ConcatTexts(FirstAnswer.candidates[1]) # <<>>
        THEN /\ chat_result.status = 200
             /\ chat_result.response # <<>>
             /\ chat_result.error = "none"
        ELSE /\ chat_result.status = 400
             /\ chat_result.response = <<>>
             /\ chat_result.error \in
                    EmptyResponseErrors \cup {"Gemini API error"}
             /\ chat_result.error = "Gemini API error" <=>
                    api_responses[Len(api_responses)].status_code # 200

\* C16 witness: the tool of the first response ran, the follow-up request
\* was answered with a non-success status, and the request ended with an
\* error of status 400
C16_Witness ==
    /\ chat_pc = "done"
    /\ Len(executed) = 1
    /\ Len(api_responses) = 2
    /\ SecondAnswer.status_code # 200
    /\ chat_result.status = 400
    /\ chat_result.error = "Gemini API error"

----------------------------------------------------------------------------
(* Claims about session ids and credentials *)

\* the value a credential encodes under a key
TokenField(credential, key) ==
    LET items == credential.token.b64
    IN items[CHOOSE i \in 1..Len(items) : items[i][1] = key][2]

\* C17: the credential of every stored session encodes the id and the owner
\* of that session, and an expiry that is exactly 3600 seconds after the
\* issue time it encodes.
C17_TokenBoundToSession ==
    \A sid \in DOMAIN active_sessions :
        LET session == active_sessions[sid]
            credential == session.ephemeral_token
        IN /\ TokenField(credential, "session_id") = sid
           /\ TokenField(credential, "session_id") = session.session_id
           /\ TokenField(credential, "user_id") = session.user_id
           /\ TokenField(credential, "expires_at") =
                  TokenField(credential, "created_at") + 3600

\* C20: the session ids generated by create_session are pairwise different,
\* so no create_session replaces an entry or resets an interaction log.
C20_SessionIdsUnique ==
    /\ \A i, j \in 1..Len(generated) : i # j => generated[i] # generated[j]
    /\ Cardinality(DOMAIN active_sessions) = Len(generated)

----------------------------------------------------------------------------
(* Claims about the request/response interface *)

\* C18: an authenticated create-session request is answered with status 200
\* and a descriptor, and afterwards the session is in the store with status
\* initialized and an empty interaction log.
C18_CreateEndpointSucceeds ==
    /\ \A u \in Users, l \in SessionProfiles :
           /\ CreateVoiceSessionResponse(u, [integrations |-> l]).status = 200
           /\ CreateVoiceSessionResponse(u, [integrations |-> l]).error = "none"
    /\ [][\A u \in Users, l \in SessionProfiles :
             CreateVoiceSession(u, [integrations |-> l]) =>
                 \E sid \in DOMAIN active_sessions' \ DOMAIN active_sessions :
                     /\ active_sessions'[sid].status = "initialized"
                     /\ session_contexts'[sid] = <<>>]_vars

\* C19: a function-call request without a tool name, and a generate-response
\* request whose user message is empty or blank, are each answered with
\* status 400 and do not reach the service.
C19_ValidationRejectedWith400 ==
    /\ \A sid \in SessionIds, data \in FunctionDataInputs :
           data.name \in {"None", ""} =>
               FunctionCallResponse(sid, data, "ok").status = 400
    /\ ( /\ chat_pc = "done"
         /\ api_requests = <<>>
         /\ chat_result.error = "User message cannot be empty" )
       => chat_result.status = 400

----------------------------------------------------------------------------
(* Claims about the conversation window *)

\* the role the completion request gives to a stored message
RoleOfSender(sender) == IF sender = "user" THEN "user" ELSE "model"

\* conversation is the last min(10, n) turns of the history, in their
\* order, followed by the new user turn
IsWindowOf(conversation, chat_history, user_message) ==
    LET n == Len(chat_history)
        k == IF n < 10 THEN n ELSE 10
    IN /\ Len(conversation) = k + 1
       /\ Len(conversation) <= 11
       /\ \A j \in 1..k :
              /\ conversation[j].role = RoleOfSender(chat_history[n - k + j].sender)
              /\ conversation[j].parts =
                     <<[text |-> chat_history[n - k + j].content]>>
       /\ conversation[k + 1] =
              [role |-> "user", parts |-> <<[text |-> user_message]>>]

\* C21: the conversation sent with the first completion request is the last
\* min(10, n) turns of the n-turn chat history, in their original order,
\* followed by the new user turn as the last turn: at most 11 turns, and the
\* user message is never dropped.
C21_LastTenThenUserTurn ==
    [][\A request \in HistoryRequests :
          ( /\ GenerateAiResponse(request, TRUE)
            /\ chat_pc' = "first_request" )
          => /\ IsWindowOf(conversation_contents', request.chat_history,
                            request.user_message)
             /\ api_requests' = <<conversation_contents'>>]_vars

\* a history of 12 turns was cut: the request carries 11 turns, the first of
\* them the third turn of the history
C21_Witness ==
    /\ chat_pc = "first_request"
    /\ Len(api_requests[1]) = 11
    /\ Len(api_requests[1][1].parts[1].text) = 3
    /\ api_requests[1][11].parts[1].text = <<"q">>

----------------------------------------------------------------------------
(* Claims about the health endpoints *)

\* the statuses of the checks of a response that count for the overall one
CountedStatuses(body) ==
    {body.checks[n].status : n \in DOMAIN body.checks} \ {"not_configured"}

\* C22: the Supabase and the external-API health checks always answer with
\* status 200 and a body whose status is 'healthy' or 'unhealthy', whatever
\* the downstream services do; the overall status of the external-API check
\* is 'healthy' exactly when every check that is not 'not_configured' is
\* 'healthy'.
C22_HealthAlwaysAnswers ==
    \A i \in 1..Len(health_log) :
        /\ health_log[i].status_code = 200
        /\ health_log[i].body.status \in {"healthy", "unhealthy"}
        /\ health_log[i].endpoint = "external-apis" =>
               /\ DOMAIN health_log[i].body.checks = {"google", "supabase"}
               /\ health_log[i].body.status = "healthy"
                      <=> CountedStatuses(health_log[i].body) \subseteq {"healthy"}

\* the external-API check answered healthy while the Google key is not
\* configured, and the Supabase check answered unhealthy after a failure
C22_Witness ==
    \E i, j \in 1..Len(health_log) :
        /\ health_log[i].endpoint = "external-apis"
        /\ health_log[i].body.checks.google.status = "not_configured"
        /\ health_log[i].body.status = "healthy"
        /\ health_log[j].endpoint = "supabase"
        /\ health_log[j].body.status = "unhealthy"

----------------------------------------------------------------------------
(* Claims about the interaction log *)

\* s is a prefix of t
IsPrefix(s, t) ==
    /\ Len(s) <= Len(t)
    /\ \A i \in 1..Len(s) : t[i] = s[i]

C24_LogsFollowSessions == DOMAIN session_contexts = DOMAIN active_sessions

\* C24 witness: the sweep has removed the first session, the one call made
\* so far has returned, and the second session is stored with its log
C24_Witness ==
    /\ 1 \in ended_ids \ DOMAIN active_sessions
    /\ 2 \in DOMAIN active_sessions
    /\ invoked = 1
    /\ pending = {}
    /\ 2 \in DOMAIN returned /\ returned[2] = 0

\* C25: after end_session(sid) has returned successfully, every later
\* dispatch on sid fails as for an unknown session: it invokes no handler and
\* appends no interaction record.
C25_NoDispatchAfterEnd ==
    [][\A sid \in ended_ids, fn \in DispatchedNames :
          \A args \in ArgInputsFor(fn), ext \in OutcomesOf(fn) :
              HandleFunctionCall(sid, fn, args, ext)
              => /\ CallReturn(sid, fn, args, ext).success = FALSE
                 /\ CallReturn(sid, fn, args, ext).error = "session_not_found"
                 /\ invoked' = invoked
                 /\ pending' = pending
                 /\ session_contexts' = session_contexts]_vars

\* the records in the logs of the stored sessions, counted
RECURSIVE RecordsIn(_)
RecordsIn(sids) ==
    IF sids = {} THEN 0
    ELSE LET sid == CHOOSE x \in sids : TRUE
         IN Len(session_contexts[sid]) + RecordsIn(sids \ {sid})

\* the suspended dispatches on sid that return in this step
Resumed(sid) == {p \in pending \ pending' : p.sid = sid}

\* C26: appends are serialized per session: whenever a suspended dispatch on
\* a stored session returns, however many other dispatches on that session
\* were started, are suspended or have returned meanwhile, the log after the
\* step is the log before it with exactly the record of that dispatch added
\* at its end; so once all have returned no record is lost or overwritten,
\* and the logs never hold more records than handlers were completed.
C26_AppendsSerialized ==
    /\ [](RecordsIn(DOMAIN session_contexts) + Cardinality(pending) <= invoked)
    /\ [][\A sid \in DOMAIN session_contexts \cap DOMAIN session_contexts' :
             \A p \in Resumed(sid) :
                 /\ Cardinality(Resumed(sid)) = 1
                 /\ Len(session_contexts'[sid]) = Len(session_contexts[sid]) + 1
                 /\ \A i \in 1..Len(session_contexts[sid]) :
                        session_contexts'[sid][i] = session_contexts[sid][i]
                 /\ session_contexts'[sid][Len(session_contexts'[sid])].function
                        = p.function
                 /\ session_contexts'[sid][Len(session_contexts'[sid])].args
                        = p.args]_vars

\* C26 witness: two dispatches on the same stored session were suspended at
\* the same time; the second one has returned first and its record is in the
\* log, while the first one is still suspended
C26_Witness ==
    /\ 1 \in DOMAIN session_contexts
    /\ invoked = 2
    /\ \E p \in pending : pending = {p} /\ p.sid = 1 /\ p.n = 1
    /\ Len(session_contexts[1]) = 1
    /\ session_contexts[1][1].function = "search_web"

----------------------------------------------------------------------------
(* Claims about the independence of sessions *)

\* the entry and the log of a stored session are the same after the step
SessionUntouched(sid) ==
    /\ sid \in DOMAIN active_sessions' /\ sid \in DOMAIN session_contexts'
    /\ active_sessions'[sid] = active_sessions[sid]
    /\ session_contexts'[sid] = session_contexts[sid]

\* the step is an operation for session id a: its creation, a dispatch on it
\* up to its return or its suspension, the return of a suspended dispatch on
\* it, a context read or an end
OperationFor(a) ==
    \/ /\ a = created + 1
       /\ \E u \in Users, l \in SessionProfiles :
              CreateSession(u, [integrations |-> l])
    \/ \E fn \in DispatchedNames :
           \E args \in ArgInputsFor(fn), ext \in OutcomesOf(fn) :
               HandleFunctionCall(a, fn, args, ext)
    \/ \E p \in pending :
           /\ p.sid = a
           /\ \E ext \in OutcomesOf(p.function) : HandlerResume(p, ext)
    \/ GetSessionContext(a)
    \/ EndSession(a)

\* C27: operations on different session ids are independent: a create, a
\* dispatch, a context read or an end for session id a leaves the entry
\* (owner, profile, tool schema set, status) and the interaction log of every
\* other stored session b unchanged.
C27_SessionsIndependent ==
    [][\A b \in DOMAIN active_sessions :
          ~SessionUntouched(b) =>
              \A a \in SessionIds \ {b} : ~OperationFor(a)]_vars

\* C27 witness: both sessions are stored; the first one has been ended and
\* has a record in its log, the second one is untouched since its creation
C27_Witness ==
    /\ DOMAIN active_sessions = {1, 2}
    /\ active_sessions[1].status = "ended"
    /\ Len(session_contexts[1]) = 1
    /\ active_sessions[2].status = "initialized"
    /\ session_contexts[2] = <<>>
    /\ dispatched = 1

----------------------------------------------------------------------------
(* Claims about the removal of sessions *)

\* neither an entry nor a log is left of sid
Removed(sid) ==
    /\ sid \notin DOMAIN active_sessions
    /\ sid \notin DOMAIN session_contexts

\* sid is stored and has been ended by an end call
StoredEnded(sid) ==
    /\ sid \in DOMAIN active_sessions
    /\ active_sessions[sid].status = "ended"

----------------------------------------------------------------------------
(* Claims about the tools a session executes *)

\* the tools of the registry
RegisteredTools ==
    {"generate_document", "make_api_request", "check_domain_availability",
     "trigger_webhook", "manage_google_sheets", "manage_notion",
     "search_web", "scrape_website"}

\* the tools declared to the session
DeclaredTools(sid) == Range(active_sessions[sid].function_declarations)

\* the tools named by the records of the log of sid
RecordedTools(sid) == {r.function : r \in Range(session_contexts[sid])}

\* C29 as stated: every record of the log of a stored session names a tool of
\* the tool schema set of that session.
C29_OnlyDeclaredToolsRun ==
    \A sid \in DOMAIN active_sessions : RecordedTools(sid) \subseteq DeclaredTools(sid)

\* C29 amended: every record of the log of a stored session names a tool of
\* the registry; the dispatcher does not look at the tool schema set, so a
\* dispatch that names a registered tool runs its handler, and records its
\* result when the handler returns one, also when the session was not given
\* that tool.
C29_OnlyRegisteredToolsRun ==
    /\ [](\A sid \in DOMAIN active_sessions :
              RecordedTools(sid) \subseteq RegisteredTools)
    /\ [][\A sid \in DOMAIN active_sessions :
             \A args \in ArgInputsFor("manage_google_sheets") :
                 ( /\ "manage_google_sheets" \notin DeclaredTools(sid)
                   /\ HandleFunctionCall(sid, "manage_google_sheets", args, "ok") )
                 => /\ invoked' = invoked + 1
                    /\ HandlerRaises("manage_google_sheets", args) = "none" =>
                           session_contexts'[sid] =
                               Append(session_contexts[sid],
                                      [type |-> "function_call",
                                       function |-> "manage_google_sheets",
                                       args |-> args,
                                       result |-> [success |-> "false",
                                                   body |-> "integration_disabled"]])]_vars

\* C29 witness: the log of a session created without any integration holds
\* a record of the Google Sheets tool, which the session was not given
C29_Witness ==
    \E sid \in DOMAIN active_sessions :
        /\ active_sessions[sid].contact.integrations = <<>>
        /\ "manage_google_sheets" \notin DeclaredTools(sid)
        /\ "manage_google_sheets" \in RecordedTools(sid)

----------------------------------------------------------------------------
(* Claims about a dispatch that overlaps the sweep *)

\* C30: a suspended dispatch passed the session check, so once its handler
\* returns a result the dispatch returns success true with that result and
\* its record is at the end of the log of its session, also when the sweep
\* has removed the session while the handler was waiting.
C30_CompletedCallRecorded ==
    [][\A p \in pending :
          \A ext \in OutcomesOf(p.function) :
              HandlerResume(p, ext)
              => /\ ResumeReturn(p, ext).success = TRUE
                 /\ p.sid \in DOMAIN session_contexts'
                 /\ Len(session_contexts'[p.sid]) > 0
                 /\ session_contexts'[p.sid][Len(session_contexts'[p.sid])].function
                        = p.function]_vars

====
